---- MODULE Spec2Model ----
(***************************************************************************)
(* Model of the kriton-backend question pipeline:                          *)
(*   - ConversacionManager  (src/conversacion_manager.py)                  *)
(*   - ExtractorLemas       (src/extractor_lemas.py)                       *)
(*   - AnalisisEngine       (src/analisis_engine.py)                       *)
(*   - the request handlers (src/app.py)                                   *)
(* Each component has its own specification (SpecStore, SpecPeriodo,       *)
(* SpecExtract, SpecEngine), in which the variables of the other           *)
(* components stay at their initial values; SpecApp runs the handlers of   *)
(* the application over all of them, and SpecRace runs concurrent writers  *)
(* of the conversation store.                                              *)
(***************************************************************************)
EXTENDS Integers, Sequences, FiniteSets, TLC

VARIABLES
    max_history,      \* ConversacionManager.max_history
    conversations,    \* ConversacionManager.conversations: session_id -> {historial, contexto}
    appended,         \* history variable: every entry appended to a session since it was created
    call,             \* history variable: the last ConversacionManager call and its arguments
    ret,              \* value returned by the last ConversacionManager call
    pregunta,         \* the question text handed to the extractor, a sequence of characters
    lecturas,         \* the values datetime.now() returned during the call, in order
    periodo_ret,      \* value returned by extraer_periodo_temporal called on its own
    provider,         \* ExtractorLemas.provider (settings.LLM_PROVIDER)
    gemini_api_key,   \* ExtractorLemas.gemini_api_key (settings.GEMINI_API_KEY)
    pcE,              \* where analizar_pregunta is: "idle", "llm" (model call in flight), "done"
    llamadas,         \* history variable: the backends a request was sent to during the call
    respuesta,        \* history variable: what the model call came back with
    resultado,        \* what analizar_pregunta returned, or the exception it raised
    pcA,              \* where the AnalisisEngine is: "idle" or "done"
    consulta,         \* history variable: the engine call made and the query text it built
    db,               \* history variable: what DatabaseManager.execute_query came back with
    analisis,         \* what the engine call returned, or the exception it raised
    http,             \* the response of the last /api/preguntar request
    traza,            \* history variable: the collaborator calls of that request, in order
    hilos             \* the writers running inside ConversacionManager at this moment

storeVars == <<max_history, conversations, appended, call, ret>>

periodoVars == <<pregunta, lecturas, periodo_ret>>

llmVars == <<provider, gemini_api_key, pcE, llamadas, respuesta, resultado>>

extractorVars == <<periodoVars, llmVars>>

engineVars == <<pcA, consulta, db, analisis>>

appVars == <<http, traza>>

vars == <<storeVars, extractorVars, engineVars, appVars, hilos>>

-----------------------------------------------------------------------------
(* Bounds of the model *)

\* appends made to all live sessions together
MaxAppends == 3

-----------------------------------------------------------------------------
(* Python values used by the conversation store *)

None == "None"

EmptyStr == ""

EmptyDict == "{}"

\* bool(v) of the values passed to the store: None, '' and {} are falsy
Truthy(v) == v \notin {None, EmptyStr, EmptyDict}

\* a key that is not in a dict
Ausente == "<ausente>"

Sessions == {"s1", "s2"}

Campos == {"ultimo_lema", "ultimo_periodo", "ultimo_analisis"}

\* max_history values a manager is constructed with
MaxHistoryArgs == {0, 1, 2}

\* arguments the callers pass: a value, or nothing (None)
LemaArgs == {None, "juicio"}

PeriodoArgs == {None, "2024-03"}

AnalisisArgs == {None, "analisis"}

\* (mensaje, tipo, metadata) of the calls: a user message and an agent message
MensajeArgs ==
    { [mensaje |-> "pregunta", tipo |-> "usuario", metadata |-> None],
      [mensaje |-> "respuesta", tipo |-> "agente", metadata |-> "meta"] }

\* default of obtener_historial's limit parameter
DefaultLimit == 5

\* obtener_historial's limit when the caller asks for the whole history: the code
\* tests 'if limit', so None and 0 behave alike and both are written 0 here
SinLimite == 0

LimitArgs == {SinLimite, 1, DefaultLimit}

-----------------------------------------------------------------------------
(* ConversacionManager *)

\* a slice that starts one entry too late
PySliceFrom_corto(seq, start) ==
    SubSeq(seq, (IF start < 0 THEN (IF Len(seq) + start < 0 THEN 0 ELSE Len(seq) + start)
                 ELSE (IF start > Len(seq) THEN Len(seq) ELSE start)) + 2, Len(seq))

\* Python's seq[start:] for any integer start
PySliceFrom(seq, start) ==
    LET n == Len(seq)
        i == IF start < 0
             THEN (IF n + start < 0 THEN 0 ELSE n + start)
             ELSE (IF start > n THEN n ELSE start)
    IN  SubSeq(seq, i + 1, n)

\* the record crear_sesion stores
NuevaSesion ==
    [historial |-> << >>, contexto |-> [c \in Campos |-> Ausente]]

\* crear_sesion that rebinds the whole map to the new session
crear_sesion_rebind(convs, session_id) ==
    [s \in {session_id} |-> NuevaSesion]

\* conversations after crear_sesion(session_id)
crear_sesion(convs, session_id) ==
    [s \in (DOMAIN convs) \cup {session_id} |->
        IF s = session_id THEN NuevaSesion ELSE convs[s]]

\* 'if session_id not in self.conversations: self.crear_sesion(session_id)'
AsegurarSesion(convs, session_id) ==
    IF session_id \notin DOMAIN convs THEN crear_sesion(convs, session_id) ELSE convs

\* the entry agregar_mensaje appends ('metadata or {}')
Entrada(m) ==
    [tipo |-> m.tipo, mensaje |-> m.mensaje,
     metadata |-> IF Truthy(m.metadata) THEN m.metadata ELSE EmptyDict]

\* 'Limitar historial': lines 42-44
LimitarHistorial(historial, maxh) ==
    IF Len(historial) > maxh THEN PySliceFrom(historial, -maxh) ELSE historial

\* conversations after agregar_mensaje(session_id, mensaje, tipo, metadata)
agregar_mensaje(convs, maxh, session_id, m) ==
    LET c1 == AsegurarSesion(convs, session_id)
        h1 == Append(c1[session_id].historial, Entrada(m))
    IN  [c1 EXCEPT ![session_id].historial = LimitarHistorial(h1, maxh)]

\* an update that stores whatever it is given, None included
ActualizarCampo_sin_guarda(contexto, campo, valor) ==
    [contexto EXCEPT ![campo] = IF valor = None THEN Ausente ELSE valor]

\* 'if valor: contexto[campo] = valor'
ActualizarCampo(contexto, campo, valor) ==
    IF Truthy(valor) THEN [contexto EXCEPT ![campo] = valor] ELSE contexto

\* conversations after actualizar_contexto(session_id, lema, periodo, ultimo_analisis)
actualizar_contexto(convs, session_id, lema, periodo, ultimo_analisis) ==
    LET c1 == AsegurarSesion(convs, session_id)
        x0 == c1[session_id].contexto
        x1 == ActualizarCampo(x0, "ultimo_lema", lema)
        x2 == ActualizarCampo(x1, "ultimo_periodo", periodo)
        x3 == ActualizarCampo(x2, "ultimo_analisis", ultimo_analisis)
    IN  [c1 EXCEPT ![session_id].contexto = x3]

\* the dict obtener_contexto returns ({} for a missing session)
obtener_contexto(convs, session_id) ==
    IF session_id \notin DOMAIN convs
    THEN [c \in Campos |-> Ausente]
    ELSE convs[session_id].contexto

\* the list obtener_historial returns: 'historial[-limit:] if limit else historial'
obtener_historial(convs, session_id, limit) ==
    IF session_id \notin DOMAIN convs
    THEN << >>
    ELSE LET historial == convs[session_id].historial
         IN  IF limit # SinLimite
             THEN PySliceFrom(historial, -limit)
             ELSE historial

\* a clear that empties the session and keeps it
limpiar_sesion_vaciar(convs, session_id) ==
    IF session_id \in DOMAIN convs
    THEN [convs EXCEPT ![session_id] = NuevaSesion]
    ELSE convs

\* conversations after limpiar_sesion(session_id)
limpiar_sesion(convs, session_id) ==
    IF session_id \in DOMAIN convs
    THEN [s \in (DOMAIN convs) \ {session_id} |-> convs[s]]
    ELSE convs

-----------------------------------------------------------------------------
(* Text: a str is a sequence of characters; an accented letter is written   *)
(* with a following mark ("e'" is e with acute accent, "n~" is n with tilde) *)

Mayusculas ==
    <<"A","B","C","D","E","F","G","H","I","J","K","L","M","N","O","P","Q","R","S","T","U","V","W","X","Y","Z","A'","E'","I'","O'","U'","N~">>

Minusculas ==
    <<"a","b","c","d","e","f","g","h","i","j","k","l","m","n","o","p","q","r","s","t","u","v","w","x","y","z","a'","e'","i'","o'","u'","n~">>

\* the letters that have two cases
Letras == 1..Len(Mayusculas)

\* c.lower() of one character: a capital becomes its small letter, any other
\* character stays
lower_char(c) ==
    IF \E i \in Letras : Mayusculas[i] = c
    THEN Minusculas[CHOOSE i \in Letras : Mayusculas[i] = c]
    ELSE c

\* c.upper() of one character
upper_char(c) ==
    IF \E i \in Letras : Minusculas[i] = c
    THEN Mayusculas[CHOOSE i \in Letras : Minusculas[i] = c]
    ELSE c

\* str.lower()
lower(s) == [i \in 1..Len(s) |-> lower_char(s[i])]

\* str.upper(), used to write the questions in capitals
upper(s) == [i \in 1..Len(s) |-> upper_char(s[i])]

\* a question written with capitals and small letters alternating
alternada(s) ==
    [i \in 1..Len(s) |-> IF i % 2 = 1 THEN upper_char(s[i]) ELSE lower_char(s[i])]

\* Python's 'sub in s' for strings
Contiene(sub, s) ==
    \E i \in 0..(Len(s) - Len(sub)) : SubSeq(s, i + 1, i + Len(sub)) = sub

\* some element of seq is a substring of s: any(x in s for x in seq)
AlgunaEn(seq, s) ==
    \E i \in 1..Len(seq) : Contiene(seq[i], s)

Digitos == <<"0","1","2","3","4","5","6","7","8","9">>

\* str(n) of a non-negative int, as an f-string writes it
RECURSIVE Str(_)
Str(n) ==
    IF n < 10 THEN <<Digitos[n + 1]>> ELSE Str(n \div 10) \o <<Digitos[(n % 10) + 1]>>

\* n written with at least w digits, zero padded: strftime's %Y (w = 4) and %m (w = 2)
RECURSIVE Relleno(_, _)
Relleno(n, w) ==
    IF Len(Str(n)) >= w THEN Str(n) ELSE <<"0">> \o Relleno(n, w - 1)

-----------------------------------------------------------------------------
(* Dates *)

Bisiesto(y) == (y % 4 = 0 /\ y % 100 # 0) \/ y % 400 = 0

DiasDelMes(y, m) ==
    IF m = 2 THEN (IF Bisiesto(y) THEN 29 ELSE 28)
    ELSE IF m \in {4, 6, 9, 11} THEN 30 ELSE 31

Fecha(y, m, d) == [y |-> y, m |-> m, d |-> d]

\* the day before f
Anterior(f) ==
    IF f.d > 1 THEN Fecha(f.y, f.m, f.d - 1)
    ELSE IF f.m > 1 THEN Fecha(f.y, f.m - 1, DiasDelMes(f.y, f.m - 1))
    ELSE Fecha(f.y - 1, 12, 31)

\* the day after f
Siguiente(f) ==
    IF f.d < DiasDelMes(f.y, f.m) THEN Fecha(f.y, f.m, f.d + 1)
    ELSE IF f.m < 12 THEN Fecha(f.y, f.m + 1, 1)
    ELSE Fecha(f.y + 1, 1, 1)

\* f - timedelta(days=n)
RECURSIVE MenosDias(_, _)
MenosDias(f, n) ==
    IF n = 0 THEN f ELSE MenosDias(Anterior(f), n - 1)

\* f.strftime('%Y-%m')
strftime_Y_m(f) ==
    Relleno(f.y, 4) \o <<"-">> \o Relleno(f.m, 2)

-----------------------------------------------------------------------------
(* ExtractorLemas.extraer_periodo_temporal *)

\* days of the lookback of the 'mes pasado' rule
DiasMesPasado == 30

frases_este_mes ==
    << <<"e","s","t","e"," ","m","e","s">>, <<"m","e","s"," ","a","c","t","u","a","l">>, <<"d","e","l"," ","m","e","s">> >>

frases_mes_pasado ==
    << <<"m","e","s"," ","p","a","s","a","d","o">>, <<"u'","l","t","i","m","o"," ","m","e","s">>, <<"a","n","t","e","r","i","o","r">> >>

meses_map ==
    << [mes_nombre |-> <<"e","n","e","r","o">>, mes_num |-> <<"0","1">>],
       [mes_nombre |-> <<"f","e","b","r","e","r","o">>, mes_num |-> <<"0","2">>],
       [mes_nombre |-> <<"m","a","r","z","o">>, mes_num |-> <<"0","3">>],
       [mes_nombre |-> <<"a","b","r","i","l">>, mes_num |-> <<"0","4">>],
       [mes_nombre |-> <<"m","a","y","o">>, mes_num |-> <<"0","5">>],
       [mes_nombre |-> <<"j","u","n","i","o">>, mes_num |-> <<"0","6">>],
       [mes_nombre |-> <<"j","u","l","i","o">>, mes_num |-> <<"0","7">>],
       [mes_nombre |-> <<"a","g","o","s","t","o">>, mes_num |-> <<"0","8">>],
       [mes_nombre |-> <<"s","e","p","t","i","e","m","b","r","e">>, mes_num |-> <<"0","9">>],
       [mes_nombre |-> <<"o","c","t","u","b","r","e">>, mes_num |-> <<"1","0">>],
       [mes_nombre |-> <<"n","o","v","i","e","m","b","r","e">>, mes_num |-> <<"1","1">>],
       [mes_nombre |-> <<"d","i","c","i","e","m","b","r","e">>, mes_num |-> <<"1","2">>] >>

\* the two constant parts of filtro_sql, around the date literal
FiltroPrefijo == "DATE_TRUNC('month', fecha::date) = '"

FiltroSufijo == "'::date"

\* f"DATE_TRUNC('month', fecha::date) = '{valor}-01'::date"
filtro_sql(valor) ==
    <<FiltroPrefijo>> \o valor \o <<"-","0","1">> \o <<FiltroSufijo>>

\* the return value None of extraer_periodo_temporal
PeriodoNone == [tipo |-> "None", valor |-> << >>, filtro_sql |-> << >>]

\* the dict of a period
Periodo(valor, valor_filtro) ==
    [tipo |-> "mes", valor |-> valor, filtro_sql |-> filtro_sql(valor_filtro)]

\* index in meses_map of the first month, in the map's order, named in the text
PrimerMes(texto) ==
    IF \E i \in 1..Len(meses_map) : Contiene(meses_map[i].mes_nombre, texto)
    THEN CHOOSE i \in 1..Len(meses_map) :
            /\ Contiene(meses_map[i].mes_nombre, texto)
            /\ \A j \in 1..(i - 1) : ~Contiene(meses_map[j].mes_nombre, texto)
    ELSE 0

\* extraer_periodo_temporal(pregunta); the 'este mes' rule calls datetime.now()
\* twice (now1 for 'valor', now2 for 'filtro_sql'), the other rules once (now1)
extraer_periodo_temporal(texto, now1, now2) ==
    LET pregunta_lower == lower(texto)
    IN  IF AlgunaEn(frases_este_mes, pregunta_lower)
        THEN Periodo(strftime_Y_m(now1), strftime_Y_m(now2))
        ELSE IF AlgunaEn(frases_mes_pasado, pregunta_lower)
        THEN LET mes_pasado == strftime_Y_m(MenosDias(now1, DiasMesPasado))
             IN  Periodo(mes_pasado, mes_pasado)
        ELSE IF PrimerMes(pregunta_lower) # 0
        THEN LET valor == Str(now1.y) \o <<"-">>
                              \o meses_map[PrimerMes(pregunta_lower)].mes_num
             IN  Periodo(valor, valor)
        ELSE PeriodoNone

-----------------------------------------------------------------------------
(* Questions and clock readings of the period resolver's specification *)

\* phrases a question about a period is made of
MaxFrases == 2

VocabularioPeriodo ==
    { <<"e","s","t","e"," ","m","e","s">>,
      <<"d","e","l"," ","m","e","s">>,
      <<"m","e","s"," ","p","a","s","a","d","o">>,
      <<"u'","l","t","i","m","o"," ","m","e","s">>,
      <<"a","n","t","e","r","i","o","r">>,
      <<"m","a","y","o">>,
      <<"e","n","e","r","o">>,
      <<"c","a","s","o","s">> }

\* the phrases of ws joined by single spaces
RECURSIVE Unir(_)
Unir(ws) ==
    IF Len(ws) = 0 THEN << >>
    ELSE IF Len(ws) = 1 THEN ws[1]
    ELSE ws[1] \o <<" ">> \o Unir(Tail(ws))

\* sequences of at most n elements of S
SeqHasta(S, n) == UNION { [1..k -> S] : k \in 0..n }

\* a text as written, in capitals, and with the case alternating
Escrituras(s) == {s, upper(s), alternada(s)}

PreguntasPeriodo ==
    UNION { Escrituras(Unir(ws)) : ws \in SeqHasta(VocabularioPeriodo, MaxFrases) }

\* dates the clock is read at: the first and last days of the months of a
\* common year and a leap year
FechasPeriodo ==
    { f \in [y : {2023, 2024}, m : 1..12, d : {1, 29, 31}] :
        f.d <= DiasDelMes(f.y, f.m) }

\* two successive readings of the clock: the same day, or midnight passed between them
LecturasDe(Fechas) ==
    UNION { {<<f, f>>, <<f, Siguiente(f)>>} : f \in Fechas }

SinPregunta == <<"-">>

SinLecturas == << >>

IdlePeriodo ==
    /\ pregunta = SinPregunta
    /\ lecturas = SinLecturas
    /\ periodo_ret = PeriodoNone

\* a caller calls extraer_periodo_temporal(q) and receives its value
ExtraerPeriodo(q, l) ==
    /\ pregunta = SinPregunta
    /\ pregunta' = q
    /\ lecturas' = l
    /\ periodo_ret' = extraer_periodo_temporal(q, l[1], l[2])
    /\ UNCHANGED <<storeVars, llmVars, engineVars, appVars, hilos>>

\* the caller is done with the value; the next call may start
OlvidarPeriodo ==
    /\ pregunta # SinPregunta
    /\ pregunta' = SinPregunta
    /\ lecturas' = SinLecturas
    /\ periodo_ret' = PeriodoNone
    /\ UNCHANGED <<storeVars, llmVars, engineVars, appVars, hilos>>

LecturasPeriodo == LecturasDe(FechasPeriodo)

NextPeriodo ==
    \/ /\ pregunta = SinPregunta
       /\ \E q \in PreguntasPeriodo, l \in LecturasPeriodo : ExtraerPeriodo(q, l)
    \/ OlvidarPeriodo

-----------------------------------------------------------------------------
(* Python values the extractor handles.  A value is a record: p is its type, *)
(* s the characters of a str, n the number of an int or float (a confidence *)
(* is written in hundredths: 95 is 0.95) or the length of a list, d the      *)
(* items of a dict.                                                         *)

SinClaves == [k \in {} |-> 0]

VNone == [p |-> "None", s |-> << >>, n |-> 0, d |-> SinClaves]

VStr(s) == [p |-> "str", s |-> s, n |-> 0, d |-> SinClaves]

VNum(n) == [p |-> "num", s |-> << >>, n |-> n, d |-> SinClaves]

VList(n) == [p |-> "list", s |-> << >>, n |-> n, d |-> SinClaves]

VDict(d) == [p |-> "dict", s |-> << >>, n |-> 0, d |-> d]

\* bool(v)
Verdadero(v) ==
    CASE v.p = "None" -> FALSE
      [] v.p = "str"  -> Len(v.s) > 0
      [] v.p = "num"  -> v.n # 0
      [] v.p = "list" -> v.n > 0
      [] v.p = "dict" -> DOMAIN v.d # {}

-----------------------------------------------------------------------------
(* ExtractorLemas: cache lookup *)

cache_lemas ==
    << [lema_base |-> <<"a","l","q","u","i","l","e","r">>,
        variantes |-> << <<"a","l","q","u","i","l","e","r","e","s">>,
                       <<"r","e","n","t","a">>,
                       <<"a","r","r","i","e","n","d","o">>,
                       <<"a","l","q","u","i","l","a","r">> >>],
       [lema_base |-> <<"j","u","i","c","i","o">>,
        variantes |-> << <<"j","u","i","c","i","o","s">>,
                       <<"d","e","m","a","n","d","a">>,
                       <<"d","e","m","a","n","d","a","s">>,
                       <<"l","e","g","a","l">>,
                       <<"a","b","o","g","a","d","o">>,
                       <<"j","u","d","i","c","i","a","l">> >>],
       [lema_base |-> <<"p","a","g","o">>,
        variantes |-> << <<"p","a","g","o","s">>,
                       <<"p","a","g","a","r">>,
                       <<"a","b","o","n","a","r">>,
                       <<"c","a","n","c","e","l","a","r">>,
                       <<"s","a","l","d","a","r">>,
                       <<"a","b","o","n","o">> >>],
       [lema_base |-> <<"t","r","a","b","a","j","o">>,
        variantes |-> << <<"e","m","p","l","e","o">>,
                       <<"d","e","s","e","m","p","l","e","o">>,
                       <<"l","a","b","o","r","a","l">>,
                       <<"t","r","a","b","a","j","a","n","d","o">>,
                       <<"e","m","p","l","e","a","d","o">> >>],
       [lema_base |-> <<"d","e","u","d","a">>,
        variantes |-> << <<"d","e","u","d","a","s">>,
                       <<"d","e","b","e">>,
                       <<"a","d","e","u","d","a">>,
                       <<"p","r","e","s","t","a","m","o">>,
                       <<"c","r","e'","d","i","t","o">>,
                       <<"p","r","e'","s","t","a","m","o">> >>],
       [lema_base |-> <<"t","e","l","e","f","o","n","o">>,
        variantes |-> << <<"t","e","l","e'","f","o","n","o">>,
                       <<"l","l","a","m","a","d","a">>,
                       <<"l","l","a","m","a","d","a","s">>,
                       <<"c","o","n","t","a","c","t","o">>,
                       <<"c","o","m","u","n","i","c","a","c","i","o'","n">> >>],
       [lema_base |-> <<"p","r","o","m","e","s","a">>,
        variantes |-> << <<"p","r","o","m","e","s","a","s">>,
                       <<"c","o","m","p","r","o","m","i","s","o">>,
                       <<"c","o","m","p","r","o","m","e","t","i","o'">>,
                       <<"a","c","o","r","d","a","r">> >>] >>

\* a lookup that forgets to lowercase the question
buscar_en_cache_sin_lower(texto) ==
    LET Acierta(i) == \/ AlgunaEn(cache_lemas[i].variantes, texto)
                      \/ Contiene(cache_lemas[i].lema_base, texto)
    IN  IF \E i \in 1..Len(cache_lemas) : Acierta(i)
        THEN VStr(cache_lemas[CHOOSE i \in 1..Len(cache_lemas) :
                      Acierta(i) /\ \A j \in 1..(i - 1) : ~Acierta(j)].lema_base)
        ELSE VNone

\* buscar_en_cache(pregunta): the first lema_base, in the cache's insertion
\* order, one of whose variants (or itself) is in the lowercased question
buscar_en_cache(texto) ==
    LET pregunta_lower == lower(texto)
        Acierta(i) == \/ AlgunaEn(cache_lemas[i].variantes, pregunta_lower)
                      \/ Contiene(cache_lemas[i].lema_base, pregunta_lower)
    IN  IF \E i \in 1..Len(cache_lemas) : Acierta(i)
        THEN VStr(cache_lemas[CHOOSE i \in 1..Len(cache_lemas) :
                      Acierta(i) /\ \A j \in 1..(i - 1) : ~Acierta(j)].lema_base)
        ELSE VNone

-----------------------------------------------------------------------------
(* ExtractorLemas: the model call.  What comes back from the call:          *)
(*   "excepcion"       the call raised (transport error, timeout)           *)
(*   "status_no_200"   Ollama answered with another HTTP status             *)
(*   "cuerpo_invalido" Ollama's body is not JSON or has no 'response' field *)
(*   "json"            the text decodes as JSON, to the value .json         *)
(*   "no_json"         the text does not decode; .lema_regex is what the    *)
(*                     regular expression "lema":\s*"([^"]+)" captures in   *)
(*                     it, empty when it does not match                     *)

Resp(tipo, json, lema_regex) == [tipo |-> tipo, json |-> json, lema_regex |-> lema_regex]

SinRespuesta == Resp("ninguna", VNone, << >>)

\* confidence of a lema the regular expression found: 0.7
ConfianzaRegex == 70

\* confidence when the model's dict has no 'confianza': 0.8
ConfianzaDefecto == 80

\* confidence of a cache hit: 1.0
ConfianzaCache == 100

\* confidence of a failed extraction: 0.0
ConfianzaFallback == 0

\* 'try: return json.loads(texto) / except: match = re.search(...)': what the
\* body of the try returns; VNone stands for falling through to 'return None'
InterpretarTexto(r) ==
    IF r.tipo = "json" THEN r.json
    ELSE IF r.tipo = "no_json" /\ Len(r.lema_regex) > 0
    THEN VDict([k \in {"lema", "confianza"} |->
                   IF k = "lema" THEN VStr(r.lema_regex) ELSE VNum(ConfianzaRegex)])
    ELSE VNone

\* _extraer_con_ollama, given what requests.post came back with
extraer_con_ollama(r) ==
    IF r.tipo \in {"excepcion", "status_no_200", "cuerpo_invalido"}
    THEN VNone
    ELSE InterpretarTexto(r)

\* _extraer_con_gemini past the api key test, given what generate_content came
\* back with
extraer_con_gemini(r) ==
    IF r.tipo = "excepcion" THEN VNone ELSE InterpretarTexto(r)

\* extraer_con_llm: the configured backend, and no other
extraer_con_llm(prov, r) ==
    IF prov = "gemini" THEN extraer_con_gemini(r) ELSE extraer_con_ollama(r)

\* a backend that is called whatever its configuration
EnviaPeticion_sin_prueba(prov, key) == TRUE

\* whether extraer_con_llm sends a request: _extraer_con_gemini returns None
\* before the call when no api key is configured
EnviaPeticion(prov, key) ==
    ~(prov = "gemini" /\ key = "")

\* the backend extraer_con_llm dispatches to
Backend(prov) == IF prov = "gemini" THEN "gemini" ELSE "ollama"

-----------------------------------------------------------------------------
(* ExtractorLemas.analizar_pregunta *)

\* a returned dict
Retorno(lema, per, metodo, confianza) ==
    [estado |-> "return", exc |-> "", lema |-> lema, periodo |-> per,
     metodo |-> metodo, confianza |-> confianza]

\* an exception that leaves analizar_pregunta
Excepcion(exc) ==
    [estado |-> "raise", exc |-> exc, lema |-> VNone, periodo |-> PeriodoNone,
     metodo |-> "", confianza |-> VNone]

SinResultado ==
    [estado |-> "", exc |-> "", lema |-> VNone, periodo |-> PeriodoNone,
     metodo |-> "", confianza |-> VNone]

\* lines 198-204: the return of a cache hit
ResultadoCache(lema_cache, per) ==
    Retorno(lema_cache, per, "cache", VNum(ConfianzaCache))

\* lines 209-222: what analizar_pregunta does with resultado_llm
ResultadoLlm(resultado_llm, per) ==
    IF Verdadero(resultado_llm)
    THEN IF resultado_llm.p # "dict" THEN Excepcion("TypeError")
         ELSE IF "lema" \notin DOMAIN resultado_llm.d THEN Excepcion("KeyError")
         ELSE Retorno(resultado_llm.d["lema"], per, "llm",
                      IF "confianza" \in DOMAIN resultado_llm.d
                      THEN resultado_llm.d["confianza"]
                      ELSE VNum(ConfianzaDefecto))
    ELSE Retorno(VNone, per, "fallback", VNum(ConfianzaFallback))

-----------------------------------------------------------------------------
(* Questions, configurations and model responses of the extractor's         *)
(* specification                                                            *)

\* words a question to the extractor is made of
MaxPalabras == 2

Vocabulario ==
    { <<"a","l","q","u","i","l","e","r">>,
      <<"p","a","g","o","s">>,
      <<"d","e","m","a","n","d","a">>,
      <<"c","r","e'","d","i","t","o">>,
      <<"c","a","s","o","s">>,
      <<"e","s","t","e"," ","m","e","s">>,
      <<"e","n","e","r","o">> }

Preguntas ==
    UNION { Escrituras(Unir(ws)) : ws \in SeqHasta(Vocabulario, MaxPalabras) }

FechasExtractor == {Fecha(2024, 1, 31), Fecha(2024, 3, 15)}

LecturasExtractor == LecturasDe(FechasExtractor)

\* the static configuration: provider and api key
Configuraciones ==
    { [provider |-> "ollama", gemini_api_key |-> ""],
      [provider |-> "gemini", gemini_api_key |-> ""],
      [provider |-> "gemini", gemini_api_key |-> "clave"] }

Dict2(lema, confianza) ==
    VDict([k \in {"lema", "confianza"} |-> IF k = "lema" THEN lema ELSE confianza])

Dict1(clave, valor) == VDict([k \in {clave} |-> valor])

\* JSON texts the model may answer with
ValoresJson ==
    { Dict2(VStr(<<"j","u","i","c","i","o">>), VNum(95)),
      Dict1("lema", VStr(<<"J","u","i","c","i","o">>)),
      Dict2(VNone, VNum(50)),
      Dict1("confianza", VNum(90)),
      VDict(SinClaves),
      VStr(<<"j","u","i","c","i","o">>),
      VList(1),
      VNone }

Respuestas ==
    { Resp("excepcion", VNone, << >>),
      Resp("status_no_200", VNone, << >>),
      Resp("cuerpo_invalido", VNone, << >>),
      Resp("no_json", VNone, << >>),
      Resp("no_json", VNone, <<"p","a","g","o">>) }
    \cup { Resp("json", v, << >>) : v \in ValoresJson }

\* the outcomes a backend's call has: only Ollama's reports an HTTP status and
\* wraps the text in a JSON body
RespuestasDe(prov) ==
    IF prov = "gemini"
    THEN { r \in Respuestas : r.tipo \notin {"status_no_200", "cuerpo_invalido"} }
    ELSE Respuestas

IdleLlm ==
    /\ pcE = "idle"
    /\ llamadas = << >>
    /\ respuesta = SinRespuesta
    /\ resultado = SinResultado

\* analizar_pregunta(q) up to its return, or up to the request to the model
AnalizarPregunta(q, l) ==
    /\ pcE = "idle"
    /\ pregunta' = q
    /\ LET lema_cache == buscar_en_cache(q)
       IN  IF Verdadero(lema_cache)
           THEN /\ resultado' = ResultadoCache(lema_cache,
                                    extraer_periodo_temporal(q, l[1], l[2]))
                /\ lecturas' = l
                /\ pcE' = "done"
                /\ UNCHANGED llamadas
           ELSE IF EnviaPeticion(provider, gemini_api_key)
           THEN /\ llamadas' = Append(llamadas, Backend(provider))
                /\ pcE' = "llm"
                /\ UNCHANGED <<resultado, lecturas>>
           ELSE /\ resultado' = ResultadoLlm(VNone,
                                    extraer_periodo_temporal(q, l[1], l[2]))
                /\ lecturas' = l
                /\ pcE' = "done"
                /\ UNCHANGED llamadas
    /\ UNCHANGED <<storeVars, engineVars, appVars, hilos, periodo_ret, provider, gemini_api_key, respuesta>>

\* the model call comes back with r; analizar_pregunta runs to its end
RespuestaModelo(r, l) ==
    /\ pcE = "llm"
    /\ respuesta' = r
    /\ resultado' = ResultadoLlm(extraer_con_llm(provider, r),
                        extraer_periodo_temporal(pregunta, l[1], l[2]))
    /\ lecturas' = l
    /\ pcE' = "done"
    /\ UNCHANGED <<storeVars, engineVars, appVars, hilos, pregunta, periodo_ret, provider, gemini_api_key, llamadas>>

\* the caller has the result; the extractor is ready for the next question
Retornar ==
    /\ pcE = "done"
    /\ pcE' = "idle"
    /\ pregunta' = SinPregunta
    /\ lecturas' = SinLecturas
    /\ llamadas' = << >>
    /\ respuesta' = SinRespuesta
    /\ resultado' = SinResultado
    /\ UNCHANGED <<storeVars, engineVars, appVars, hilos, periodo_ret, provider, gemini_api_key>>

NextExtract ==
    \/ /\ pcE = "idle"
       /\ \E q \in Preguntas, l \in LecturasExtractor : AnalizarPregunta(q, l)
    \/ /\ pcE = "llm"
       /\ \E r \in RespuestasDe(provider), l \in LecturasExtractor : RespuestaModelo(r, l)
    \/ Retornar

-----------------------------------------------------------------------------
(* QueryGenerator: a query text is written as the record of its shape and   *)
(* of the values embedded in it                                             *)

\* default of generar_analisis_lema's limite parameter
LimiteDefecto == 20

\* generar_analisis_lema(lema, periodo): the filter line is added when a
\* period with a filtro_sql is given
generar_analisis_lema(lema, per) ==
    [forma |-> "analisis_lema", lema |-> lema,
     filtro |-> IF per.tipo # "None" /\ Len(per.filtro_sql) > 0
                THEN per.filtro_sql ELSE << >>,
     periodos |-> << >>, limite |-> LimiteDefecto]

\* generar_comparacion_periodos(lema, periodo1, periodo2)
generar_comparacion_periodos(lema, periodo1, periodo2) ==
    [forma |-> "comparacion_periodos", lema |-> lema, filtro |-> << >>,
     periodos |-> <<periodo1, periodo2>>, limite |-> 0]

\* generar_estadisticas_generales()
generar_estadisticas_generales ==
    [forma |-> "estadisticas_generales", lema |-> << >>, filtro |-> << >>,
     periodos |-> << >>, limite |-> 0]

-----------------------------------------------------------------------------
(* DatabaseManager.execute_query: what it comes back with                   *)
(*   "error"     it raised (the query failed, no connection)                *)
(*   "sin_filas" the statement returns no rows: an empty DataFrame()        *)
(*   "filas"     a DataFrame of the rows fetched, possibly none             *)

Db(tipo, filas) == [tipo |-> tipo, filas |-> filas]

SinDb == Db("ninguna", << >>)

\* DataFrame.empty
df_empty(d) == d.tipo = "sin_filas" \/ Len(d.filas) = 0

\* the 'datos' column of a row: a JSON text (forma "str"), an already decoded
\* value (forma "nativo"); the value is a list, or None for SQL NULL and JSON null
Datos(forma, p, v) == [forma |-> forma, p |-> p, v |-> v]

\* a value of the result map: a list, None, or no entry under the key
Dato(p, v) == [p |-> p, v |-> v]

DatoAusente == Dato("ausente", << >>)

\* 'json.loads(row['datos']) if isinstance(row['datos'], str) else row['datos']'
decodificar(datos) == Dato(datos.p, datos.v)

\* lines 36-40: the result map of the rows, a later row overwriting an earlier
\* one of the same tipo_resultado
RECURSIVE parsear_resultados(_, _)
parsear_resultados(filas, resultados) ==
    IF Len(filas) = 0 THEN resultados
    ELSE parsear_resultados(Tail(filas),
             [resultados EXCEPT ![Head(filas).tipo_resultado] =
                                   decodificar(Head(filas).datos)])

ResultadosVacios == [k \in {"temas", "temporal"} |-> DatoAusente]

-----------------------------------------------------------------------------
(* AnalisisEngine._generar_insights.  Durations are in hundredths of a       *)
(* second (the query rounds them to two decimals), percentages in tenths of *)
(* a percent (the insights print one decimal).                              *)

\* threshold of the duration alert: 300 seconds
DuracionAlerta == 30000

\* threshold of the trend insight: 50 percent
VariacionTendencia == 50

RECURSIVE SumaFrecuencias(_)
SumaFrecuencias(temas) ==
    IF Len(temas) = 0 THEN 0 ELSE Head(temas).frecuencia + SumaFrecuencias(Tail(temas))

Abs(x) == IF x < 0 THEN -x ELSE x

\* num / den rounded to the nearest integer, ties to even, as '.1f' prints
Redondear(num, den) ==
    LET q == num \div den
        r == num % den
    IN  IF 2 * r > den \/ (2 * r = den /\ q % 2 = 1) THEN q + 1 ELSE q

\* 'in resultados and resultados[k]': the key is there and its value is truthy
Presente(resultados, k) ==
    resultados[k].p = "list" /\ Len(resultados[k].v) > 0

Insight(regla, a, b, c) == [regla |-> regla, a |-> a, b |-> b, c |-> c]

\* a duration alert that also fires at the threshold itself
InsightsTemas_no_estricta(resultados) ==
    IF Presente(resultados, "temas")
    THEN LET tema_principal == resultados["temas"].v[1]
         IN  <<Insight("resumen", SumaFrecuencias(resultados["temas"].v), tema_principal, 0)>>
             \o (IF tema_principal.duracion_promedio >= DuracionAlerta
                 THEN <<Insight("duracion", tema_principal.duracion_promedio,
                                tema_principal, 0)>>
                 ELSE << >>)
    ELSE << >>

\* lines 66-84: the summary insight and, inside it, the duration alert
InsightsTemas(resultados) ==
    IF Presente(resultados, "temas")
    THEN LET temas == resultados["temas"].v
             total_casos == SumaFrecuencias(temas)
             tema_principal == temas[1]
             porcentaje == IF total_casos > 0
                           THEN Redondear(tema_principal.frecuencia * 1000, total_casos)
                           ELSE 0
         IN  <<Insight("resumen", total_casos, tema_principal, porcentaje)>>
             \o (IF tema_principal.duracion_promedio > DuracionAlerta
                 THEN <<Insight("duracion", tema_principal.duracion_promedio,
                                tema_principal, 0)>>
                 ELSE << >>)
    ELSE << >>

\* a trend insight that also fires at a variation of exactly 50 percent
InsightsTemporal_no_estricta(resultados) ==
    IF Presente(resultados, "temporal") /\ Len(resultados["temporal"].v) >= 2
    THEN LET temporal == resultados["temporal"].v
             ultimo_mes == temporal[Len(temporal)]
             penultimo_mes == temporal[Len(temporal) - 1]
         IN  IF /\ penultimo_mes.casos > 0
                /\ Abs((ultimo_mes.casos - penultimo_mes.casos) * 100)
                       >= VariacionTendencia * penultimo_mes.casos
             THEN <<Insight("tendencia",
                            IF ultimo_mes.casos > penultimo_mes.casos THEN "sube" ELSE "baja",
                            penultimo_mes, ultimo_mes)>>
             ELSE << >>
    ELSE << >>

\* lines 87-101: the trend insight; the variation is compared as
\* (ultimo - penultimo) * 100 against 50 * penultimo, which is the test
\* abs(variacion) > 50 without the division
InsightsTemporal(resultados) ==
    IF Presente(resultados, "temporal") /\ Len(resultados["temporal"].v) >= 2
    THEN LET temporal == resultados["temporal"].v
             ultimo_mes == temporal[Len(temporal)]
             penultimo_mes == temporal[Len(temporal) - 1]
             supera == /\ penultimo_mes.casos > 0
                       /\ Abs((ultimo_mes.casos - penultimo_mes.casos) * 100)
                              > VariacionTendencia * penultimo_mes.casos
         IN  IF supera
             THEN <<Insight("tendencia",
                            IF ultimo_mes.casos > penultimo_mes.casos THEN "sube" ELSE "baja",
                            penultimo_mes, ultimo_mes)>>
             ELSE << >>
    ELSE << >>

\* lines 104-109: the secondary topic; len() of a None value raises TypeError
InsightsSecundario(resultados) ==
    IF resultados["temas"].p = "ausente" THEN << >>
    ELSE IF Len(resultados["temas"].v) > 1
    THEN <<Insight("secundario", 0, resultados["temas"].v[2], 0)>>
    ELSE << >>

\* whether _generar_insights raises: line 104 takes len() of a None 'temas'
InsightsFalla(resultados) == resultados["temas"].p = "None"

_generar_insights(resultados) ==
    InsightsTemas(resultados) \o InsightsTemporal(resultados)
        \o InsightsSecundario(resultados)

-----------------------------------------------------------------------------
(* AnalisisEngine: analizar_lema, comparar_periodos, estadisticas_generales *)

Analisis(estado, success, error, datos, insights, registros) ==
    [estado |-> estado, success |-> success, error |-> error, datos |-> datos,
     insights |-> insights, registros |-> registros]

SinAnalisis == Analisis("", FALSE, "", ResultadosVacios, << >>, << >>)

\* an exception that leaves the engine
AnalisisExcepcion(exc) == Analisis("raise", FALSE, exc, ResultadosVacios, << >>, << >>)

\* {'success': False, 'error': ...}
AnalisisFallo(error) == Analisis("return", FALSE, error, ResultadosVacios, << >>, << >>)

\* an engine that reports success when there are no rows
analizar_lema_sin_prueba(d) ==
    IF d.tipo = "error" THEN AnalisisExcepcion("Exception")
    ELSE LET resultados == parsear_resultados(d.filas, ResultadosVacios)
         IN  IF InsightsFalla(resultados) THEN AnalisisExcepcion("TypeError")
             ELSE Analisis("return", TRUE, "", resultados,
                           _generar_insights(resultados), << >>)

\* analizar_lema, given what execute_query came back with
analizar_lema(d) ==
    IF d.tipo = "error" THEN AnalisisExcepcion("Exception")
    ELSE IF df_empty(d) THEN AnalisisFallo("No se encontraron datos para el lema")
    ELSE LET resultados == parsear_resultados(d.filas, ResultadosVacios)
         IN  IF InsightsFalla(resultados) THEN AnalisisExcepcion("TypeError")
             ELSE Analisis("return", TRUE, "", resultados,
                           _generar_insights(resultados), << >>)

\* comparar_periodos, given what execute_query came back with
comparar_periodos(d) ==
    IF d.tipo = "error" THEN AnalisisExcepcion("Exception")
    ELSE IF df_empty(d) THEN AnalisisFallo("No hay datos para comparar")
    ELSE Analisis("return", TRUE, "", ResultadosVacios, << >>, d.filas)

\* estadisticas_generales, given what execute_query came back with:
\* 'estadisticas' is the first record
estadisticas_generales(d) ==
    IF d.tipo = "error" THEN AnalisisExcepcion("Exception")
    ELSE IF df_empty(d) THEN AnalisisFallo("No hay datos disponibles")
    ELSE Analisis("return", TRUE, "", ResultadosVacios, << >>, <<d.filas[1]>>)

-----------------------------------------------------------------------------
(* Rows and calls of the engine's specification *)

\* topic rows in a 'temas' payload
MaxTemas == 2

\* points in a 'temporal' payload
MaxPuntos == 2

Tema(nombre, frecuencia, duracion_promedio) ==
    [temas |-> nombre, frecuencia |-> frecuencia, duracion_promedio |-> duracion_promedio]

Punto(mes, casos) == [mes |-> mes, casos |-> casos]

\* topic rows: durations of 120 s, 300 s and 300.01 s
TemasArgs ==
    { Tema("juicio", 80, 12000), Tema("juicio", 80, 30000),
      Tema("juicio", 80, 30001), Tema("pago", 20, 9000), Tema("pago", 0, 9000) }

\* case counts of a month: 10 -> 15 is +50%, 10 -> 16 more, 10 -> 5 is -50%,
\* 10 -> 4 more, and 0 is a month without cases
CasosArgs == {0, 4, 5, 10, 15, 16}

\* the i-th month of the series
MesDe(i) == <<"2","0","2","4","-","0",Digitos[i + 1]>>

ListasTemas == SeqHasta(TemasArgs, MaxTemas)

ListasTemporal ==
    { [i \in 1..Len(cs) |-> Punto(MesDe(i), cs[i])] : cs \in SeqHasta(CasosArgs, MaxPuntos) }

\* the payloads of a row with lists from L: each list as JSON text and decoded,
\* and NULL
PayloadsDe(L) ==
    { Datos(f, "list", v) : f \in {"str", "nativo"}, v \in L }
        \cup { Datos("nativo", "None", << >>) }

Fila(tipo_resultado, datos) == [tipo_resultado |-> tipo_resultado, datos |-> datos]

\* what execute_query comes back with for the query of analizar_lema: a
\* 'temas' row, a 'temporal' row, or both in the order of the UNION ALL
DbAnalisis ==
    { Db("error", << >>), Db("sin_filas", << >>), Db("filas", << >>) }
    \cup { Db("filas", <<Fila("temas", t)>>) : t \in PayloadsDe(ListasTemas) }
    \cup { Db("filas", <<Fila("temporal", t)>>) : t \in PayloadsDe(ListasTemporal) }
    \cup { Db("filas", <<Fila("temas", t), Fila("temporal", u)>>) :
             t \in PayloadsDe(ListasTemas), u \in PayloadsDe(ListasTemporal) }

FilaComparacion(per, casos) == [periodo |-> per, casos |-> casos]

FilaEstadisticas(total) == [total_registros |-> total]

DbComparacion ==
    { Db("error", << >>), Db("sin_filas", << >>), Db("filas", << >>),
      Db("filas", <<FilaComparacion("2024-01", 10), FilaComparacion("2024-02", 0)>>) }

DbEstadisticas ==
    { Db("error", << >>), Db("sin_filas", << >>), Db("filas", << >>),
      Db("filas", <<FilaEstadisticas(0)>>), Db("filas", <<FilaEstadisticas(100)>>) }

LemasEngine == { <<"j","u","i","c","i","o">> }

PeriodosEngine ==
    { PeriodoNone,
      Periodo(<<"2","0","2","4","-","0","3">>, <<"2","0","2","4","-","0","3">>) }

Consulta(op, query) == [op |-> op, query |-> query]

SinConsulta == Consulta("ninguna", generar_estadisticas_generales)

IdleEngine ==
    /\ pcA = "idle"
    /\ consulta = SinConsulta
    /\ db = SinDb
    /\ analisis = SinAnalisis

AnalizarLema(lema, per, d) ==
    /\ pcA = "idle"
    /\ consulta' = Consulta("analizar_lema", generar_analisis_lema(lema, per))
    /\ db' = d
    /\ analisis' = analizar_lema(d)
    /\ pcA' = "done"
    /\ UNCHANGED <<storeVars, extractorVars, appVars, hilos>>

CompararPeriodos(lema, periodo1, periodo2, d) ==
    /\ pcA = "idle"
    /\ consulta' = Consulta("comparar_periodos",
                       generar_comparacion_periodos(lema, periodo1, periodo2))
    /\ db' = d
    /\ analisis' = comparar_periodos(d)
    /\ pcA' = "done"
    /\ UNCHANGED <<storeVars, extractorVars, appVars, hilos>>

EstadisticasGenerales(d) ==
    /\ pcA = "idle"
    /\ consulta' = Consulta("estadisticas_generales", generar_estadisticas_generales)
    /\ db' = d
    /\ analisis' = estadisticas_generales(d)
    /\ pcA' = "done"
    /\ UNCHANGED <<storeVars, extractorVars, appVars, hilos>>

\* the caller has the result; the engine is ready for the next call
RetornarEngine ==
    /\ pcA = "done"
    /\ pcA' = "idle"
    /\ consulta' = SinConsulta
    /\ db' = SinDb
    /\ analisis' = SinAnalisis
    /\ UNCHANGED <<storeVars, extractorVars, appVars, hilos>>

NextEngine ==
    \/ /\ pcA = "idle"
       /\ \E lema \in LemasEngine, per \in PeriodosEngine, d \in DbAnalisis :
              AnalizarLema(lema, per, d)
    \/ /\ pcA = "idle"
       /\ \E lema \in LemasEngine, d \in DbComparacion :
              CompararPeriodos(lema, "2024-01", "2024-02", d)
    \/ /\ pcA = "idle"
       /\ \E d \in DbEstadisticas : EstadisticasGenerales(d)
    \/ RetornarEngine

-----------------------------------------------------------------------------
(* The application: values of a request, and the writers of the store *)

\* an HTTP response of /api/preguntar: its kind and AnalisisResponse.success
Http(tipo, success) == [tipo |-> tipo, success |-> success]

SinHttp == Http("ninguna", FALSE)

IdleApp ==
    /\ http = SinHttp
    /\ traza = << >>

\* the threads of control that may call ConversacionManager at the same time
Writers == {"w1", "w2"}

\* a writer that is not inside a call
HiloIdle ==
    [pc |-> "idle", session_id |-> None, entrada |-> None, leido |-> << >>,
     hechas |-> 0, solapado |-> FALSE]

IdleHilos == hilos = [w \in Writers |-> HiloIdle]

-----------------------------------------------------------------------------
(* The store's operations as actions *)

RetNone == [kind |-> "none", val |-> << >>]

\* the record of a call: its name, its session and its arguments
Llamada(op, s, args) == [op |-> op, session_id |-> s, args |-> args]

TotalAppended == Len(appended["s1"]) + Len(appended["s2"])

InitStore ==
    /\ max_history \in MaxHistoryArgs
    /\ conversations = [s \in {} |-> NuevaSesion]
    /\ appended = [s \in Sessions |-> << >>]
    /\ call = Llamada("__init__", None, << >>)
    /\ ret = RetNone
    /\ IdlePeriodo
    /\ provider = "ollama" /\ gemini_api_key = ""
    /\ IdleLlm
    /\ IdleEngine
    /\ IdleApp
    /\ IdleHilos

AgregarMensaje(s, m) ==
    /\ TotalAppended < MaxAppends
    /\ conversations' = agregar_mensaje(conversations, max_history, s, m)
    /\ appended' = [appended EXCEPT ![s] = Append(@, Entrada(m))]
    /\ call' = Llamada("agregar_mensaje", s, <<m.mensaje, m.tipo, m.metadata>>)
    /\ ret' = RetNone
    /\ UNCHANGED <<max_history, extractorVars, engineVars, appVars, hilos>>

ActualizarContexto(s, lema, periodo, ultimo_analisis) ==
    /\ conversations' =
           actualizar_contexto(conversations, s, lema, periodo, ultimo_analisis)
    /\ call' = Llamada("actualizar_contexto", s, <<lema, periodo, ultimo_analisis>>)
    /\ ret' = RetNone
    /\ UNCHANGED <<max_history, appended>>
    /\ UNCHANGED <<extractorVars, engineVars, appVars, hilos>>

ObtenerContexto(s) ==
    /\ call' = Llamada("obtener_contexto", s, << >>)
    /\ ret' = [kind |-> "contexto", val |-> obtener_contexto(conversations, s)]
    /\ UNCHANGED <<max_history, conversations, appended>>
    /\ UNCHANGED <<extractorVars, engineVars, appVars, hilos>>

ObtenerHistorial(s, limit) ==
    /\ call' = Llamada("obtener_historial", s, <<limit>>)
    /\ ret' = [kind |-> "historial", val |-> obtener_historial(conversations, s, limit)]
    /\ UNCHANGED <<max_history, conversations, appended>>
    /\ UNCHANGED <<extractorVars, engineVars, appVars, hilos>>

LimpiarSesion(s) ==
    /\ conversations' = limpiar_sesion(conversations, s)
    /\ appended' = [appended EXCEPT ![s] = << >>]
    /\ call' = Llamada("limpiar_sesion", s, << >>)
    /\ ret' = RetNone
    /\ UNCHANGED <<max_history, extractorVars, engineVars, appVars, hilos>>

NextStore ==
    \/ \E s \in Sessions, m \in MensajeArgs : AgregarMensaje(s, m)
    \/ \E s \in Sessions, l \in LemaArgs, p \in PeriodoArgs, a \in AnalisisArgs :
           ActualizarContexto(s, l, p, a)
    \/ \E s \in Sessions : ObtenerContexto(s)
    \/ \E s \in Sessions, limit \in LimitArgs : ObtenerHistorial(s, limit)
    \/ \E s \in Sessions : LimpiarSesion(s)

SpecStore == InitStore /\ [][NextStore]_vars

\* the period resolver alone: a manager that is constructed and never called
InitPeriodo ==
    /\ max_history = 2
    /\ conversations = [s \in {} |-> NuevaSesion]
    /\ appended = [s \in Sessions |-> << >>]
    /\ call = Llamada("__init__", None, << >>)
    /\ ret = RetNone
    /\ IdlePeriodo
    /\ provider = "ollama" /\ gemini_api_key = ""
    /\ IdleLlm
    /\ IdleEngine
    /\ IdleApp
    /\ IdleHilos

SpecPeriodo == InitPeriodo /\ [][NextPeriodo]_vars

\* the analysis engine alone
InitEngine ==
    /\ InitPeriodo

SpecEngine == InitEngine /\ [][NextEngine]_vars

\* the extractor alone, under each static configuration
InitExtract ==
    /\ max_history = 2
    /\ conversations = [s \in {} |-> NuevaSesion]
    /\ appended = [s \in Sessions |-> << >>]
    /\ call = Llamada("__init__", None, << >>)
    /\ ret = RetNone
    /\ IdlePeriodo
    /\ \E c \in Configuraciones :
          provider = c.provider /\ gemini_api_key = c.gemini_api_key
    /\ IdleLlm
    /\ IdleEngine
    /\ IdleApp
    /\ IdleHilos

SpecExtract == InitExtract /\ [][NextExtract]_vars

-----------------------------------------------------------------------------
(* app.py: the /api/preguntar handler and the session endpoints.  The        *)
(* handlers are coroutines without an await, so the event loop runs each    *)
(* one from its first line to its last before it starts the next.           *)

\* messages the live sessions hold together, counting the truncated ones
MaxMensajesApp == 4

\* the str of a sequence of characters
RECURSIVE Cadena(_)
Cadena(s) == IF Len(s) = 0 THEN "" ELSE s[1] \o Cadena(Tail(s))

\* a value of the extractor as the store keeps it: the store never looks
\* inside the values it is given
TextoDe(v) ==
    CASE v.p = "str" -> Cadena(v.s)
      [] v.p = "num" -> "<num>"
      [] v.p = "list" -> "<list>"
      [] v.p = "dict" -> "<dict>"
      [] OTHER -> None

\* a period descriptor as the store keeps it
TextoDePeriodo(per) == IF per.tipo = "None" THEN None ELSE Cadena(per.valor)

\* analizar_pregunta from its first line to its return, given what the model
\* answers if it is asked
analizar_pregunta(q, l, prov, key, r) ==
    LET per == extraer_periodo_temporal(q, l[1], l[2])
        lema_cache == buscar_en_cache(q)
    IN  IF Verdadero(lema_cache) THEN ResultadoCache(lema_cache, per)
        ELSE IF EnviaPeticion(prov, key)
        THEN ResultadoLlm(extraer_con_llm(prov, r), per)
        ELSE ResultadoLlm(VNone, per)

\* whether analizar_pregunta asks the model
PreguntaAlModelo(q, prov, key) ==
    ~Verdadero(buscar_en_cache(q)) /\ EnviaPeticion(prov, key)

\* a handler that goes on to the analysis whatever the extraction gave
SinLema_nunca(res) == FALSE

\* 'if not analisis_pregunta['lema']'
SinLema(res) == ~Verdadero(res.lema)

\* _generar_respuesta_conversacional(lema, resultado): the text names the lema
\* and lists the insights
generar_respuesta_conversacional(lema, an) ==
    "Analisis de '" \o TextoDe(lema) \o "'"

\* AnalisisResponse(lema=...) validates 'lema: Optional[str]': a list or a dict
\* is rejected, a number is rejected or coerced depending on the pydantic version
RespuestasValidas(lema) ==
    CASE lema.p = "str" -> {Http("ok", TRUE)}
      [] lema.p = "num" -> {Http("ok", TRUE), Http("500", FALSE)}
      [] OTHER -> {Http("500", FALSE)}

\* the three writes of a successful analysis, in the order of lines 102-126
EscriturasDeExito(convs, maxh, session_id, q, res, an) ==
    LET c1 == agregar_mensaje(convs, maxh, session_id,
                  [mensaje |-> Cadena(q), tipo |-> "usuario", metadata |-> None])
        c2 == actualizar_contexto(c1, session_id, TextoDe(res.lema),
                  TextoDePeriodo(res.periodo), "analisis")
    IN  agregar_mensaje(c2, maxh, session_id,
            [mensaje |-> generar_respuesta_conversacional(res.lema, an),
             tipo |-> "agente", metadata |-> "meta"])

\* questions, clock readings, model answers and query outcomes of a request
PreguntasApp ==
    { <<"a","l","q","u","i","l","e","r">>,
      <<"c","a","s","o","s">> }

LecturasApp == { <<Fecha(2024, 3, 15), Fecha(2024, 3, 15)>> }

RespuestasApp ==
    { Resp("excepcion", VNone, << >>),
      Resp("json", Dict2(VStr(<<"j","u","i","c","i","o">>), VNum(95)), << >>),
      Resp("json", Dict2(VNone, VNum(50)), << >>),
      Resp("json", Dict1("confianza", VNum(90)), << >>),
      Resp("json", Dict1("lema", VNum(5)), << >>) }

DbApp ==
    { Db("error", << >>), Db("filas", << >>),
      Db("filas", <<Fila("temas", Datos("nativo", "None", << >>))>>),
      Db("filas", <<Fila("temas",
                         Datos("nativo", "list", <<Tema("juicio", 80, 30001)>>))>>) }

\* the answers the model may give to q: none when it is not asked
RespuestasPara(q) ==
    IF PreguntaAlModelo(q, provider, gemini_api_key) THEN RespuestasApp ELSE {SinRespuesta}

\* whether the handler goes on to the analysis
ConLema(res) == res.estado = "return" /\ ~SinLema(res)

\* the outcomes of the query: none when the engine is not called
DbPara(q, l, r) ==
    IF ConLema(analizar_pregunta(q, l, provider, gemini_api_key, r)) THEN DbApp ELSE {SinDb}

\* POST /api/preguntar: the whole handler
Preguntar(session_id, q, l, r, d) ==
    LET res == analizar_pregunta(q, l, provider, gemini_api_key, r)
        preguntado == PreguntaAlModelo(q, provider, gemini_api_key)
        conLema == ConLema(res)
        an == IF conLema THEN analizar_lema(d) ELSE SinAnalisis
        exito == conLema /\ an.estado = "return" /\ an.success
    IN  /\ TotalAppended + 2 <= MaxMensajesApp
        /\ pregunta' = q
        /\ lecturas' = l
        /\ llamadas' = IF preguntado THEN <<Backend(provider)>> ELSE << >>
        /\ respuesta' = r
        /\ resultado' = res
        /\ consulta' = IF conLema
                       THEN Consulta("analizar_lema",
                                generar_analisis_lema(res.lema, res.periodo))
                       ELSE SinConsulta
        /\ db' = d
        /\ analisis' = an
        /\ IF exito
           THEN /\ conversations' = EscriturasDeExito(conversations, max_history,
                                        session_id, q, res, an)
                /\ appended' = [appended EXCEPT ![session_id] =
                       @ \o << Entrada([mensaje |-> Cadena(q), tipo |-> "usuario",
                                        metadata |-> None]),
                               Entrada([mensaje |-> generar_respuesta_conversacional(res.lema, an),
                                        tipo |-> "agente", metadata |-> "meta"]) >>]
                /\ call' = Llamada("obtener_contexto", session_id, << >>)
                /\ ret' = [kind |-> "contexto",
                           val |-> obtener_contexto(conversations', session_id)]
                /\ traza' = <<"analizar_pregunta", "analizar_lema", "agregar_mensaje usuario",
                              "actualizar_contexto", "agregar_mensaje agente",
                              "obtener_contexto">>
                /\ http' \in RespuestasValidas(res.lema)
           ELSE /\ UNCHANGED <<conversations, appended, call, ret>>
                /\ traza' = IF conLema THEN <<"analizar_pregunta", "analizar_lema">>
                            ELSE <<"analizar_pregunta">>
                /\ http' = IF res.estado = "raise" \/ (conLema /\ an.estado = "raise")
                           THEN Http("500", FALSE)
                           ELSE IF ~conLema THEN Http("sin_lema", FALSE)
                           ELSE Http("sin_datos", FALSE)
        /\ UNCHANGED <<max_history, periodo_ret, provider, gemini_api_key, pcE, pcA, hilos>>

\* default of the endpoint's limit parameter
LimiteEndpoint == 10

\* GET /api/sesion/{session_id}/historial
HistorialDeSesion(s, limit) ==
    /\ call' = Llamada("obtener_historial", s, <<limit>>)
    /\ ret' = [kind |-> "historial", val |-> obtener_historial(conversations, s, limit)]
    /\ http' = Http("historial", TRUE)
    /\ traza' = <<"obtener_historial">>
    /\ UNCHANGED <<max_history, conversations, appended, extractorVars, engineVars, hilos>>

\* DELETE /api/sesion/{session_id}
BorrarSesion(s) ==
    /\ conversations' = limpiar_sesion(conversations, s)
    /\ appended' = [appended EXCEPT ![s] = << >>]
    /\ call' = Llamada("limpiar_sesion", s, << >>)
    /\ ret' = RetNone
    /\ http' = Http("limpiada", TRUE)
    /\ traza' = <<"limpiar_sesion">>
    /\ UNCHANGED <<max_history, extractorVars, engineVars, hilos>>

NextApp ==
    \/ /\ TotalAppended + 2 <= MaxMensajesApp
       /\ \E q \in PreguntasApp, l \in LecturasApp :
            \E r \in RespuestasPara(q) :
              \E d \in DbPara(q, l, r), session_id \in Sessions :
                 Preguntar(session_id, q, l, r, d)
    \/ \E s \in Sessions : HistorialDeSesion(s, LimiteEndpoint)
    \/ \E s \in Sessions : BorrarSesion(s)

\* the settings the application starts with: either backend, no api key
ConfiguracionesApp == { c \in Configuraciones : c.gemini_api_key = "" }

\* the application under each of these settings, with a history of two entries
InitApp ==
    /\ max_history = 2
    /\ conversations = [s \in {} |-> NuevaSesion]
    /\ appended = [s \in Sessions |-> << >>]
    /\ call = Llamada("__init__", None, << >>)
    /\ ret = RetNone
    /\ IdlePeriodo
    /\ \E c \in ConfiguracionesApp :
          provider = c.provider /\ gemini_api_key = c.gemini_api_key
    /\ IdleLlm
    /\ IdleEngine
    /\ IdleApp
    /\ IdleHilos

SpecApp == InitApp /\ [][NextApp]_vars

-----------------------------------------------------------------------------
(* ConversacionManager.agregar_mensaje called by writers that run at the    *)
(* same time: the class takes no lock, so a writer may be preempted between *)
(* any two of its statements.  One step is one statement.                   *)

\* calls of agregar_mensaje each writer makes
MaxLlamadas == 2

\* the message of a writer's n-th call
MensajeDe(w, n) ==
    [mensaje |-> w \o (IF n = 1 THEN "-1" ELSE IF n = 2 THEN "-2" ELSE "-n"),
     tipo |-> "usuario", metadata |-> None]

\* another writer is inside a call on the same session
OtroDentro(w, s) ==
    \E o \in Writers \ {w} : hilos[o].pc # "idle" /\ hilos[o].session_id = s

\* the writer enters agregar_mensaje(s, ...)
LlamarAgregar(w, s) ==
    /\ hilos[w].pc = "idle"
    /\ hilos[w].hechas < MaxLlamadas
    /\ hilos' = [o \in Writers |->
          IF o = w
          THEN [hilos[w] EXCEPT !.pc = "comprobar", !.session_id = s,
                                !.entrada = Entrada(MensajeDe(w, hilos[w].hechas + 1)),
                                !.hechas = @ + 1,
                                !.solapado = @ \/ OtroDentro(w, s)]
          ELSE [hilos[o] EXCEPT !.solapado = @ \/ (hilos[o].pc # "idle"
                                                    /\ hilos[o].session_id = s)]]
    /\ call' = Llamada("agregar_mensaje", s, <<w>>)
    /\ UNCHANGED <<max_history, conversations, appended, ret>>
    /\ UNCHANGED <<extractorVars, engineVars, appVars>>

\* line 31: 'if session_id not in self.conversations'
ComprobarSesion(w) ==
    /\ hilos[w].pc = "comprobar"
    /\ hilos' = [hilos EXCEPT ![w].pc =
          IF hilos[w].session_id \notin DOMAIN conversations THEN "crear" ELSE "anexar"]
    /\ UNCHANGED <<storeVars, extractorVars, engineVars, appVars>>

\* line 32: crear_sesion stores a new record under the key, whatever is there
CrearSesion(w) ==
    /\ hilos[w].pc = "crear"
    /\ conversations' = crear_sesion(conversations, hilos[w].session_id)
    /\ hilos' = [hilos EXCEPT ![w].pc = "anexar"]
    /\ UNCHANGED <<max_history, appended, call, ret>>
    /\ UNCHANGED <<extractorVars, engineVars, appVars>>

\* lines 34-39: the append to the session's list
AnexarEntrada(w) ==
    /\ hilos[w].pc = "anexar"
    /\ conversations' = [conversations EXCEPT ![hilos[w].session_id].historial =
                            Append(@, hilos[w].entrada)]
    /\ appended' = [appended EXCEPT ![hilos[w].session_id] = Append(@, hilos[w].entrada)]
    /\ hilos' = [hilos EXCEPT ![w].pc = "medir"]
    /\ UNCHANGED <<max_history, call, ret>>
    /\ UNCHANGED <<extractorVars, engineVars, appVars>>

\* line 42: 'if len(historial) > self.max_history'; the call returns if not
MedirHistorial(w) ==
    /\ hilos[w].pc = "medir"
    /\ hilos' = [hilos EXCEPT ![w].pc =
          IF Len(conversations[hilos[w].session_id].historial) > max_history
          THEN "cortar" ELSE "idle"]
    /\ UNCHANGED <<storeVars, extractorVars, engineVars, appVars>>

\* lines 43-44, right-hand side: the slice of the list as it is now
CortarHistorial(w) ==
    /\ hilos[w].pc = "cortar"
    /\ hilos' = [hilos EXCEPT
          ![w].leido = PySliceFrom(conversations[hilos[w].session_id].historial,
                                   -max_history),
          ![w].pc = "escribir"]
    /\ UNCHANGED <<storeVars, extractorVars, engineVars, appVars>>

\* lines 43-44, assignment: the slice replaces the session's list
EscribirHistorial(w) ==
    /\ hilos[w].pc = "escribir"
    /\ conversations' = [conversations EXCEPT ![hilos[w].session_id].historial =
                            hilos[w].leido]
    /\ hilos' = [hilos EXCEPT ![w].pc = "idle", ![w].leido = << >>]
    /\ UNCHANGED <<max_history, appended, call, ret>>
    /\ UNCHANGED <<extractorVars, engineVars, appVars>>

NextRace ==
    \/ \E w \in Writers, s \in Sessions : LlamarAgregar(w, s)
    \/ \E w \in Writers : ComprobarSesion(w)
    \/ \E w \in Writers : CrearSesion(w)
    \/ \E w \in Writers : AnexarEntrada(w)
    \/ \E w \in Writers : MedirHistorial(w)
    \/ \E w \in Writers : CortarHistorial(w)
    \/ \E w \in Writers : EscribirHistorial(w)

\* the store with a history of one or two entries, and no session yet
InitRace ==
    /\ max_history \in MaxHistoryArgs \ {0}
    /\ conversations = [s \in {} |-> NuevaSesion]
    /\ appended = [s \in Sessions |-> << >>]
    /\ call = Llamada("__init__", None, << >>)
    /\ ret = RetNone
    /\ IdlePeriodo
    /\ provider = "ollama" /\ gemini_api_key = ""
    /\ IdleLlm
    /\ IdleEngine
    /\ IdleApp
    /\ IdleHilos

SpecRace == InitRace /\ [][NextRace]_vars

-----------------------------------------------------------------------------
(* Claims about the conversation store *)

\* the last n elements of seq, in their order (all of seq when it is shorter)
LastN(seq, n) ==
    IF Len(seq) <= n THEN seq ELSE [i \in 1..n |-> seq[Len(seq) - n + i]]

\* the parameter of actualizar_contexto that carries a context field
ArgDe(campo) ==
    CASE campo = "ultimo_lema" -> 1
      [] campo = "ultimo_periodo" -> 2
      [] campo = "ultimo_analisis" -> 3

\* C1: for every max history N >= 0 the stored history of a session holds at
\* most N entries, and once more than N entries were appended get_history with
\* no limit returns exactly the last N appended entries in their order.
C1_HistoryTruncated ==
    \A s \in DOMAIN conversations :
        /\ Len(conversations[s].historial) <= max_history
        /\ Len(appended[s]) > max_history =>
               obtener_historial(conversations, s, SinLimite)
                   = LastN(appended[s], max_history)

\* C1 for N >= 1 only: the same statement with max_history = 0 left out.
C1_HistoryTruncatedPositiveN ==
    max_history >= 1 => C1_HistoryTruncated

C1_WitnessPositiveN ==
    /\ max_history = 2
    /\ Len(appended["s1"]) = 3
    /\ call.op = "agregar_mensaje" /\ call.session_id = "s1"
    /\ appended["s1"][1] # appended["s1"][2]
    /\ appended["s1"][2] # appended["s1"][3]

\* C2: a call of append_message, and a call of update_context that passes no
\* value for a context field, leaves that field of the session as it was.
C2_ContextFieldIndependence ==
    [][ \A c \in Campos :
          ( \/ call'.op = "agregar_mensaje"
            \/ /\ call'.op = "actualizar_contexto"
               /\ call'.args[ArgDe(c)] = None )
          => obtener_contexto(conversations', call'.session_id)[c]
                 = obtener_contexto(conversations, call'.session_id)[c] ]_vars

\* update_context(s1, lema="juicio") earlier, update_context(s1, periodo=P) now
C2_Witness ==
    /\ call.op = "actualizar_contexto" /\ call.session_id = "s1"
    /\ call.args = <<None, "2024-03", None>>
    /\ "s1" \in DOMAIN conversations
    /\ conversations["s1"].contexto["ultimo_lema"] = "juicio"
    /\ conversations["s1"].contexto["ultimo_periodo"] = "2024-03"

\* C3: a call on one session leaves every other session as it was: it neither
\* creates nor deletes it, and its history and context are unchanged.
C3_SessionIsolation ==
    [][ \A b \in Sessions :
          b # call'.session_id =>
              /\ (b \in DOMAIN conversations') = (b \in DOMAIN conversations)
              /\ b \in DOMAIN conversations =>
                     conversations'[b] = conversations[b] ]_vars

\* an append that creates s1 or truncates its history while s2 holds data
C3_Witness ==
    /\ call.op = "agregar_mensaje" /\ call.session_id = "s1"
    /\ "s2" \in DOMAIN conversations
    /\ Len(conversations["s2"].historial) = 1
    /\ conversations["s2"].contexto["ultimo_lema"] = "juicio"
    /\ Len(appended["s1"]) > Len(conversations["s1"].historial)

-----------------------------------------------------------------------------
(* Claims about the extractor *)

\* some stretch of the text is the word s up to letter case
ContieneSinCaso(s, texto) ==
    \E i \in 0..(Len(texto) - Len(s)) :
        \A k \in 1..Len(s) : lower_char(texto[i + k]) = lower_char(s[k])

\* the text names cached topic i: it has its canonical name or one of its
\* registered variants, in any letter case
NombraLema(i, texto) ==
    \/ ContieneSinCaso(cache_lemas[i].lema_base, texto)
    \/ \E k \in 1..Len(cache_lemas[i].variantes) :
           ContieneSinCaso(cache_lemas[i].variantes[k], texto)

\* analizar_pregunta returned cached topic i with confidence 1.0, method cache
EsAciertoDe(i) ==
    /\ resultado.estado = "return"
    /\ resultado.lema = VStr(cache_lemas[i].lema_base)
    /\ resultado.metodo = "cache"
    /\ resultado.confianza = VNum(100)

\* C4 as stated: for every cached topic T that the question names, extract
\* returns T with confidence 1.0 and method cache.
C4_EveryNamedTopicReturned ==
    pcE = "done" =>
        \A i \in 1..Len(cache_lemas) : NombraLema(i, pregunta) => EsAciertoDe(i)

\* C4 amended: when the question names cached topics, extract returns the
\* first of them in the cache's insertion order, with confidence 1.0 and
\* method cache.
C4_FirstNamedTopicReturned ==
    pcE = "done" =>
        \A i \in 1..Len(cache_lemas) :
            (NombraLema(i, pregunta) /\ \A j \in 1..(i - 1) : ~NombraLema(j, pregunta))
                => EsAciertoDe(i)

\* a question in capitals that names 'juicio' (demanda) and 'pago' (pagos)
C4_Witness ==
    /\ pcE = "done"
    /\ pregunta = upper(pregunta) /\ pregunta # lower(pregunta)
    /\ NombraLema(2, pregunta) /\ NombraLema(3, pregunta)
    /\ EsAciertoDe(2)

\* the cache lookup of the question matched
AciertoCache == \E i \in 1..Len(cache_lemas) : NombraLema(i, pregunta)

\* C5 as stated: in one extract call the model is invoked zero times when the
\* cache lookup matches and exactly once, on the configured backend, when it
\* does not.
C5_OnceWheneverCacheMisses ==
    /\ Len(llamadas) <= 1
    /\ pcE = "done" =>
           llamadas = IF AciertoCache THEN << >> ELSE <<Backend(provider)>>

\* C5 amended: the model is invoked zero times when the cache lookup matches,
\* and also when it does not match but the configured backend is Gemini with
\* no api key; otherwise exactly once, on the configured backend, whatever
\* the call comes back with.
C5_AtMostOnceAndNotWithoutKey ==
    /\ Len(llamadas) <= 1
    /\ pcE = "llm" => llamadas = <<Backend(provider)>>
    /\ pcE = "done" =>
           llamadas = IF AciertoCache \/ (provider = "gemini" /\ gemini_api_key = "")
                      THEN << >>
                      ELSE <<Backend(provider)>>

\* a call that failed was not repeated
C5_Witness ==
    /\ pcE = "done"
    /\ ~AciertoCache
    /\ respuesta.tipo = "excepcion"
    /\ llamadas = <<"gemini">>
    /\ resultado.metodo = "fallback"

\* C6: extract returns an extraction result whatever the model call comes
\* back with; no exception leaves it.
C6_ExtractNeverRaises ==
    pcE = "done" => resultado.estado = "return"

\* C7: in every extraction result the topic is None exactly when the method
\* is fallback with confidence 0.0, a cache or llm result has a topic, and the
\* period is the one resolved from the question.
C7_NoneTopicIffFallback ==
    (pcE = "done" /\ resultado.estado = "return") =>
        /\ resultado.metodo \in {"cache", "llm", "fallback"}
        /\ (resultado.lema = VNone)
               <=> (resultado.metodo = "fallback" /\ resultado.confianza = VNum(0))
        /\ resultado.periodo
               = extraer_periodo_temporal(pregunta, lecturas[1], lecturas[2])

\* C8: every topic extract returns, from the cache or from the model, is a
\* lowercase string.
C8_TopicIsLowercase ==
    (pcE = "done" /\ resultado.estado = "return" /\ resultado.lema # VNone) =>
        /\ resultado.lema.p = "str"
        /\ resultado.lema.s = lower(resultado.lema.s)

-----------------------------------------------------------------------------
(* Claims about the period resolver *)

\* the month a question asks for, by the rule list: [y, m], or m = 0 for none
MesNinguno == [y |-> 0, m |-> 0]

\* number of the first month of the year whose name is in the text, 0 if none
PrimerMesNombrado(texto) ==
    IF \E i \in 1..12 : Contiene(meses_map[i].mes_nombre, texto)
    THEN CHOOSE i \in 1..12 :
            /\ Contiene(meses_map[i].mes_nombre, texto)
            /\ \A j \in 1..12 : Contiene(meses_map[j].mes_nombre, texto) => i <= j
    ELSE 0

MesDeReferencia(texto, hoy) ==
    LET t == lower(texto)
    IN  CASE \E i \in 1..3 : Contiene(frases_este_mes[i], t) ->
                 [y |-> hoy.y, m |-> hoy.m]
          [] /\ ~\E i \in 1..3 : Contiene(frases_este_mes[i], t)
             /\ \E i \in 1..3 : Contiene(frases_mes_pasado[i], t) ->
                 [y |-> MenosDias(hoy, 30).y, m |-> MenosDias(hoy, 30).m]
          [] /\ ~\E i \in 1..3 : Contiene(frases_este_mes[i], t)
             /\ ~\E i \in 1..3 : Contiene(frases_mes_pasado[i], t)
             /\ PrimerMesNombrado(t) # 0 ->
                 [y |-> hoy.y, m |-> PrimerMesNombrado(t)]
          [] OTHER -> MesNinguno

\* YYYY-MM of a year of four digits and a month
ValorDe(mes) ==
    << Digitos[(mes.y \div 1000) + 1], Digitos[((mes.y \div 100) % 10) + 1],
       Digitos[((mes.y \div 10) % 10) + 1], Digitos[(mes.y % 10) + 1], "-",
       Digitos[(mes.m \div 10) + 1], Digitos[(mes.m % 10) + 1] >>

\* the descriptor of a month: type month, value YYYY-MM, and the predicate
\* that compares the month-truncated date to the first day of that value
DescriptorDe(mes) ==
    [tipo |-> "mes",
     valor |-> ValorDe(mes),
     filtro_sql |-> <<FiltroPrefijo>> \o ValorDe(mes) \o <<"-","0","1">> \o <<FiltroSufijo>>]

\* C9: resolve_period is the rule list evaluated in order, first match winning
\* (this month; else the month of today minus 30 days; else the first named
\* month in the current year; else None), and every descriptor has type month,
\* a YYYY-MM value and a predicate on that same value's first day.
C9_PeriodIsRuleList ==
    pregunta # SinPregunta =>
        LET mes == MesDeReferencia(pregunta, lecturas[1])
        IN  periodo_ret = IF mes = MesNinguno THEN PeriodoNone ELSE DescriptorDe(mes)

\* C9 when the clock shows the same month at every reading of the call
C9_PeriodIsRuleListSameMonth ==
    (pregunta # SinPregunta /\ lecturas[1].m = lecturas[2].m) => C9_PeriodIsRuleList

C9_WitnessSameMonth ==
    /\ pregunta # SinPregunta
    /\ lecturas = <<Fecha(2023, 3, 1), Fecha(2023, 3, 1)>>
    /\ periodo_ret.valor = <<"2","0","2","3","-","0","1">>

-----------------------------------------------------------------------------
(* Claims about the analysis engine *)

\* C10: whenever the execution collaborator returns an empty result set,
\* analyze_topic, compare_periods and general_stats return success = false with
\* an error message, and never success = true.
C10_EmptyResultIsFailure ==
    (pcA = "done" /\ db.tipo \in {"sin_filas", "filas"} /\ Len(db.filas) = 0) =>
        /\ analisis.estado = "return"
        /\ analisis.success = FALSE
        /\ analisis.error # ""

\* analizar_lema met a result set without rows and reported the failure
C10_WitnessAnalisis ==
    /\ pcA = "done" /\ consulta.op = "analizar_lema"
    /\ db = Db("filas", << >>)
    /\ analisis.success = FALSE

\* the result map that analizar_lema builds from the rows it was given
MapaDe(d) == parsear_resultados(d.filas, ResultadosVacios)

\* analizar_lema was called and is about to hand its outcome to the caller
LemaAnalizado == pcA = "done" /\ consulta.op = "analizar_lema"

\* analizar_lema returned a result whose insights hold one of the given rule
Emitida(regla) ==
    /\ analisis.estado = "return"
    /\ \E i \in 1..Len(analisis.insights) : analisis.insights[i].regla = regla

\* C11: analyze_topic never raises to its caller: whatever the execution
\* collaborator does (rows, no rows, execution error) and whatever the shape of
\* the payloads (JSON text, native list, null), it returns a tagged result.
C11_EngineNeverRaises ==
    LemaAnalizado => analisis.estado = "return"

\* C12: the duration alert is emitted if and only if the topic list is
\* non-empty and the average duration of its first topic is strictly greater
\* than 300 seconds; at exactly 300 it is not emitted.
C12_DurationAlertStrict ==
    LemaAnalizado =>
        LET temas == MapaDe(db)["temas"]
        IN  Emitida("duracion") <=>
                /\ temas.p = "list" /\ Len(temas.v) > 0
                /\ temas.v[1].duracion_promedio > 300 * 100

\* the first topic lasts exactly 300 seconds on average and no alert is emitted
C12_WitnessBoundary ==
    /\ LemaAnalizado /\ analisis.estado = "return" /\ analisis.success
    /\ analisis.datos["temas"].p = "list" /\ Len(analisis.datos["temas"].v) > 0
    /\ analisis.datos["temas"].v[1].duracion_promedio = 300 * 100
    /\ ~Emitida("duracion")
    /\ Emitida("resumen")

OrdenDeRegla(regla) ==
    CASE regla = "resumen" -> 1 [] regla = "duracion" -> 2
      [] regla = "tendencia" -> 3 [] regla = "secundario" -> 4

\* the insights are a subsequence of (summary, duration alert, trend,
\* secondary topic), the secondary topic is there exactly when the topic list
\* has a second entry, and the list is empty when no rule's condition holds
InsightsEnOrden(resultados, insights) ==
    /\ \A i, j \in 1..Len(insights) :
           i < j => OrdenDeRegla(insights[i].regla) < OrdenDeRegla(insights[j].regla)
    /\ (\E i \in 1..Len(insights) : insights[i].regla = "secundario")
           <=> (resultados["temas"].p = "list" /\ Len(resultados["temas"].v) >= 2)
    /\ (~Presente(resultados, "temas") /\ ~Presente(resultados, "temporal"))
           => insights = << >>

\* C14: for every result map the insights list is a subsequence of (summary,
\* duration alert, trend, secondary topic) in that order, each rule giving at
\* most one insight; the secondary topic is present exactly when the topic list
\* has a second entry, and the list is empty when no rule's condition holds.
C14_InsightOrderEveryMap ==
    (LemaAnalizado /\ db.tipo = "filas" /\ Len(db.filas) > 0) =>
        /\ analisis.estado = "return"
        /\ InsightsEnOrden(MapaDe(db), analisis.insights)

\* C14 for the result maps whose topic list is a list or is absent
C14_InsightOrderWhenReturned ==
    (LemaAnalizado /\ analisis.estado = "return" /\ analisis.success) =>
        InsightsEnOrden(analisis.datos, analisis.insights)

-----------------------------------------------------------------------------
(* Claims about the life of a session *)

ContextoVacio == [c \in Campos |-> Ausente]

\* what a step that called op on session s did to the set of sessions and to s
PasoDeSesion(op, s) ==
    LET existia == s \in DOMAIN conversations
        existe == s \in DOMAIN conversations'
    IN  CASE op \in {"obtener_contexto", "obtener_historial"} ->
                 /\ conversations' = conversations
                 /\ ~existia =>
                        ret'.val = IF op = "obtener_historial" THEN << >> ELSE ContextoVacio
          [] op = "limpiar_sesion" ->
                 /\ DOMAIN conversations' = (DOMAIN conversations) \ {s}
                 /\ ~existia => conversations' = conversations
          [] op = "agregar_mensaje" ->
                 /\ DOMAIN conversations' = (DOMAIN conversations) \cup {s}
                 /\ ~existia =>
                        /\ conversations'[s].contexto = ContextoVacio
                        /\ Len(conversations'[s].historial) <= 1
                        /\ \A i \in 1..Len(conversations'[s].historial) :
                               /\ conversations'[s].historial[i].mensaje = call'.args[1]
                               /\ conversations'[s].historial[i].tipo = call'.args[2]
          [] op = "actualizar_contexto" ->
                 /\ DOMAIN conversations' = (DOMAIN conversations) \cup {s}
                 /\ ~existia =>
                        /\ conversations'[s].historial = << >>
                        /\ \A c \in Campos :
                               conversations'[s].contexto[c] \in {Ausente, call'.args[ArgDe(c)]}
          [] OTHER -> FALSE

\* C15: a session exists from its first write (append_message or
\* update_context) until clear_session on it: the reads never create a session
\* and return an empty history and an empty context for a missing one,
\* clear_session removes the session and is a no-op on a missing one, and a
\* write to a missing session starts from an empty history and an empty context.
C15_SessionLifecycle ==
    [][ PasoDeSesion(call'.op, call'.session_id) ]_vars

\* after clear_session on it a session is gone while the other one lives on
C15_Witness ==
    /\ call.op = "limpiar_sesion" /\ call.session_id = "s1"
    /\ "s1" \notin DOMAIN conversations
    /\ "s2" \in DOMAIN conversations
    /\ Len(conversations["s2"].historial) > 0

-----------------------------------------------------------------------------
(* Claims about the question-handling chain *)

\* the store is as it was: same sessions, same histories, same contexts
TiendaIgual ==
    /\ DOMAIN conversations' = DOMAIN conversations
    /\ \A s \in DOMAIN conversations :
           /\ Len(conversations'[s].historial) = Len(conversations[s].historial)
           /\ conversations'[s] = conversations[s]

\* a step of the /api/preguntar handler
PasoPreguntar == traza' # << >> /\ traza'[1] = "analizar_pregunta"

\* what a request did, given how it ended
PasoDeCadena ==
    LET sinTema == resultado'.estado # "return" \/ resultado'.lema.p = "None"
        exito == /\ ~sinTema
                 /\ analisis'.estado = "return" /\ analisis'.success
    IN  /\ sinTema => (consulta'.op = "ninguna" /\ db' = SinDb)
        /\ http'.tipo \in {"sin_lema", "sin_datos"} => TiendaIgual
        /\ (~exito) => TiendaIgual
        /\ exito =>
               \E s \in Sessions :
                   LET h == conversations'[s].historial
                       n == Len(h)
                   IN  /\ s \in DOMAIN conversations'
                       /\ Len(appended'[s]) = Len(appended[s]) + 2
                       /\ appended'[s][Len(appended'[s]) - 1].tipo = "usuario"
                       /\ appended'[s][Len(appended'[s]) - 1].mensaje = Cadena(pregunta')
                       /\ appended'[s][Len(appended'[s])].tipo = "agente"
                       /\ conversations'[s].contexto["ultimo_lema"] = TextoDe(resultado'.lema)
                       /\ conversations'[s].contexto["ultimo_analisis"] = "analisis"
                       /\ n >= 1 => h[n].tipo = "agente"
                       /\ n >= 2 => (h[n - 1].tipo = "usuario"
                                       /\ h[n - 1].mensaje = Cadena(pregunta'))
                       /\ traza' = <<"analizar_pregunta", "analizar_lema",
                                     "agregar_mensaje usuario", "actualizar_contexto",
                                     "agregar_mensaje agente", "obtener_contexto">>

\* C16: a request whose extraction yields no topic never calls the analysis
\* engine; a request that ends in extraction failure or in no-data failure
\* leaves the store as it was; only a successful analysis appends the user
\* message, then updates the context, then appends the agent message.
C16_ChainFrameAndOrder ==
    [][ PasoPreguntar => PasoDeCadena ]_vars

\* a request went through the three writes on a session that already had a
\* conversation
C16_WitnessExito ==
    /\ http = Http("ok", TRUE)
    /\ max_history = 2
    /\ "s1" \in DOMAIN conversations
    /\ Len(appended["s1"]) = 4
    /\ conversations["s1"].historial[1].tipo = "usuario"
    /\ conversations["s1"].historial[2].tipo = "agente"

-----------------------------------------------------------------------------
(* Claims about writers to one session *)

\* the i-th append completed on session s is not in the session's history
Ausencia(s, i) ==
    \/ s \notin DOMAIN conversations
    \/ \A j \in 1..Len(conversations[s].historial) :
           conversations[s].historial[j] # appended[s][i]

\* a message whose append completed is absent from the history of s although
\* fewer than max_history messages were appended after it
Perdida(s) ==
    \E i \in 1..Len(appended[s]) :
        Len(appended[s]) - i < max_history /\ Ausencia(s, i)

\* C17: two writers to one session that interleave between the existence
\* check, the append and the truncation write-back can lose an update: a
\* message whose append completed is absent from the history although fewer
\* than N messages were appended after it.  No update is lost unless two calls
\* on the session overlapped; the witness is the loss.
C17_LossOnlyWhenWritersOverlap ==
    \A s \in Sessions :
        Perdida(s) => \E w \in Writers : hilos[w].solapado

\* both writers have returned, each appended one message to s1, the history
\* has room for both, and one of the two is gone
C17_WitnessLostUpdate ==
    /\ max_history = 2
    /\ \A w \in Writers : hilos[w].pc = "idle" /\ hilos[w].hechas = 1
    /\ Len(appended["s1"]) = 2
    /\ Perdida("s1")

\* in the application, where a handler runs to its end before the next one
\* starts, no completed append is lost
SinPerdidaEnApp ==
    max_history >= 1 => \A s \in Sessions : ~Perdida(s)

-----------------------------------------------------------------------------
(* Claims about the last-month phrases *)

\* the question holds one of the given phrases, whatever its letter case
NombraFrase(frases, texto) ==
    \E i \in 1..Len(frases) : Contiene(frases[i], lower(texto))

\* the descriptor of the month of (today minus 30 days)
DescriptorMesPasado(hoy) ==
    DescriptorDe([y |-> MenosDias(hoy, 30).y, m |-> MenosDias(hoy, 30).m])

\* C18: for every question that contains a last-month phrase ('mes pasado',
\* 'ultimo mes' or 'anterior'), resolve_period returns the last-month
\* descriptor, the month of (current date minus 30 days), and not the result
\* of any other rule.
C18_LastMonthPhraseWins ==
    (pregunta # SinPregunta /\ NombraFrase(frases_mes_pasado, pregunta)) =>
        periodo_ret = DescriptorMesPasado(lecturas[1])

\* C18 for the questions that hold no this-month phrase
C18_LastMonthWithoutThisMonthPhrase ==
    (/\ pregunta # SinPregunta
     /\ NombraFrase(frases_mes_pasado, pregunta)
     /\ ~NombraFrase(frases_este_mes, pregunta)) =>
        periodo_ret = DescriptorMesPasado(lecturas[1])

====
